---- MODULE Spec2Model ----
(***************************************************************************)
(* MineruService (apps/agents/src/services/mineruService.ts): the remote   *)
(* PDF conversion job (request upload URL, upload, poll, download) and the *)
(* extraction of markdown and images from the result ZIP.                  *)
(*                                                                         *)
(* One behaviour is one call of a public method of one MineruService       *)
(* instance: convertPDFToMarkdownWithImages, or waitForBatchCompletion     *)
(* called directly with a maxWaitTime of the caller's choice.  Every       *)
(* action is one run-to-completion step of the event loop: the code from   *)
(* the resumption of an await (or the delivery of an event) up to the next *)
(* await.                                                                  *)
(***************************************************************************)
EXTENDS Integers, Sequences, FiniteSets, TLC

\* ------------------------------------------------------------------ bounds

\* Granularity of the wall clock, in milliseconds.
Tick == 2500
\* A direct caller of waitForBatchCompletion passes 0..MaxWaitTicks ticks.
MaxWaitTicks == 5
\* A status query takes 0..MaxQueryTicks ticks to answer.
MaxQueryTicks == 2
\* setTimeout fires 0..MaxSleepLag ticks later than asked.
MaxSleepLag == 1
\* A result ZIP holds 0..MaxEntries entries.
MaxEntries == 3
\* The graph state holds 0..MaxMessages messages.
MaxMessages == 2
\* The converted context-document message holds 0..MaxParts content parts.
MaxParts == 2

\* --------------------------------------------------------- program constants

defaultMaxWaitTime == 300000
pollInterval == 5000

\* ------------------------------------------------------------------ values

\* An optional field that is not there (undefined).
Absent == "~undefined"
\* JavaScript truthiness of an optional string: !!s
Truthy(s) == s # Absent /\ s # ""

Ceil(a, b) == (a + b - 1) \div b

States == {"waiting-file", "pending", "running", "done", "failed", "converting"}

\* The constructor's reads of the environment.
Configs == [enabled : BOOLEAN, apiUrl : {"", "https://mineru"}, apiToken : {"", "tok"}]

MaxWaitTimes == {k * Tick : k \in 0..MaxWaitTicks}
QueryDurations == {k * Tick : k \in 0..MaxQueryTicks}
SleepDurations == {pollInterval + k * Tick : k \in 0..MaxSleepLag}

\* What the POST /file-urls/batch can come back with.
\*   kind "reject": fetch rejects (network error)
\*   kind "http":   a response; ok, the JSON body's code and data.file_urls
\*   (hasUrls: whether data.file_urls is there at all)
UploadUrlResponses ==
    {[op |-> "requestUploadUrl", kind |-> "reject", ok |-> FALSE, code |-> 0,
      file_urls |-> <<>>, hasUrls |-> FALSE]}
    \cup [op : {"requestUploadUrl"}, kind : {"http"}, ok : BOOLEAN, code : {0, 1},
          file_urls : {<<>>, <<"https://put/1", "https://put/2">>},
          hasUrls : BOOLEAN]

\* What a PUT or a plain GET can come back with.
PlainResponses(op) ==
    [op : {op}, kind : {"reject", "http"}, ok : BOOLEAN, code : {0},
     file_urls : {<<>>}, hasUrls : {FALSE}]

NoResponse ==
    [op |-> "none", kind |-> "none", ok |-> FALSE, code |-> 0, file_urls |-> <<>>,
     hasUrls |-> FALSE]

NoStatus == [kind |-> "none", state |-> "", full_zip_url |-> Absent, err_msg |-> Absent]

\* What GET /extract-results/batch/:id can come back with.
\*   "reject" fetch rejects; "http" response.ok is false; "code" code !== 0;
\*   "empty" extract_result missing or []; "status" extract_result[0]
BatchResponses ==
    [kind : {"reject", "http", "code", "empty"}, state : {""},
     full_zip_url : {Absent}, err_msg : {Absent}]
    \cup [kind : {"status"}, state : States \ {"done", "failed"},
          full_zip_url : {Absent}, err_msg : {Absent}]
    \cup [kind : {"status"}, state : {"done"},
          full_zip_url : {Absent, "", "https://zip/1", "https://zip/2"},
          err_msg : {Absent}]
    \cup [kind : {"status"}, state : {"failed"},
          full_zip_url : {Absent}, err_msg : {Absent, "", "bad pdf"}]

\* An Error: its message's fixed text and the value interpolated into it.
Err(text, detail) == [text |-> text, detail |-> detail]

NoOutcome == [kind |-> "none"]
Returned(v) == [kind |-> "returned", value |-> v]
Thrown(e) == [kind |-> "thrown", error |-> e]

\* A remote call, as the transport sees it.
Call(op, target) == [op |-> op, target |-> target]

\* The trace of remote calls; a run of status queries is kept as one entry
\* (polls counts them).
Log(n, c) ==
    IF c.op = "getBatchResult" /\ Len(n) > 0 /\ n[Len(n)] = c THEN n ELSE Append(n, c)

\* --------------------------------------------------------- strings, bytes

\* The entry names of the result ZIPs considered, as their characters.
Chars(n) ==
    CASE n = "a.md" -> <<"a", ".", "m", "d">>
      [] n = "b.md" -> <<"b", ".", "m", "d">>
      [] n = "blank.md" -> <<"b", "l", "a", "n", "k", ".", "m", "d">>
      [] n = "README.MD" -> <<"R", "E", "A", "D", "M", "E", ".", "M", "D">>
      [] n = "img1.png" -> <<"i", "m", "g", "1", ".", "p", "n", "g">>
      [] n = "page-3.png" -> <<"p", "a", "g", "e", "-", "3", ".", "p", "n", "g">>
      [] n = "page0.png" -> <<"p", "a", "g", "e", "0", ".", "p", "n", "g">>
      [] n = "cover.png" -> <<"c", "o", "v", "e", "r", ".", "p", "n", "g">>
      [] n = "d/" -> <<"d", "/">>
      [] n = "meta.json" -> <<"m", "e", "t", "a", ".", "j", "s", "o", "n">>

\* The bytes stored under each name.
ContentOf(n) ==
    CASE n = "a.md" -> <<65>>
      [] n = "b.md" -> <<66, 255>>
      [] n = "blank.md" -> <<32>>
      [] n = "README.MD" -> <<67>>
      [] n = "img1.png" -> <<137, 80, 78>>
      [] n = "page-3.png" -> <<137, 80>>
      [] n = "page0.png" -> <<80>>
      [] n = "cover.png" -> <<255>>
      [] n = "d/" -> <<>>
      [] n = "meta.json" -> <<123>>

\* String.prototype.toLowerCase, on the letters that occur.
LowerChar(c) ==
    CASE c = "A" -> "a" [] c = "D" -> "d" [] c = "E" -> "e"
      [] c = "M" -> "m" [] c = "R" -> "r"
      [] OTHER -> c
toLowerCase(cs) == [i \in 1..Len(cs) |-> LowerChar(cs[i])]

\* String.prototype.endsWith
endsWith(cs, suffix) ==
    /\ Len(suffix) <= Len(cs)
    /\ SubSeq(cs, Len(cs) - Len(suffix) + 1, Len(cs)) = suffix

Digits == {"0", "1", "2", "3", "4", "5", "6", "7", "8", "9"}
DigitValue(c) ==
    CASE c = "0" -> 0 [] c = "1" -> 1 [] c = "2" -> 2 [] c = "3" -> 3 [] c = "4" -> 4
      [] c = "5" -> 5 [] c = "6" -> 6 [] c = "7" -> 7 [] c = "8" -> 8 [] c = "9" -> 9

\* Buffer.prototype.toString('utf8'): a byte below 128 is its code point; a
\* byte from 0xF8 up never starts or continues a sequence and decodes to
\* U+FFFD.  (The bytes of ContentOf are of these two kinds.)
RECURSIVE Utf8Decode(_)
Utf8Decode(bytes) ==
    IF bytes = <<>> THEN <<>>
    ELSE <<(IF Head(bytes) < 128 THEN Head(bytes) ELSE 65533)>> \o Utf8Decode(Tail(bytes))

\* Buffer.prototype.toString('base64'), as indices into the base64 alphabet;
\* index 64 is the padding '='.
RECURSIVE Base64(_)
Base64(bytes) ==
    IF Len(bytes) = 0 THEN <<>>
    ELSE IF Len(bytes) = 1
    THEN <<bytes[1] \div 4, (bytes[1] % 4) * 16, 64, 64>>
    ELSE IF Len(bytes) = 2
    THEN <<bytes[1] \div 4, (bytes[1] % 4) * 16 + bytes[2] \div 16,
           (bytes[2] % 16) * 4, 64>>
    ELSE <<bytes[1] \div 4, (bytes[1] % 4) * 16 + bytes[2] \div 16,
           (bytes[2] % 16) * 4 + bytes[3] \div 64, bytes[3] % 64>>
         \o Base64(SubSeq(bytes, 4, Len(bytes)))

\* A string is kept as a sequence of chunks: literal text of the program, or
\* decoded code points.
Lit(s) == [lit |-> s, cps |-> <<>>]
Text(cps) == [lit |-> "", cps |-> cps]

\* White space and line terminators, as String.prototype.trim strips them.
WhiteSpace == {9, 10, 11, 12, 13, 32, 160, 5760, 8232, 8233, 8239, 8287, 12288, 65279}
    \cup (8192..8202)
BlankChunk(c) ==
    /\ c.lit \in {"", "\n", "\n\n"}
    /\ \A i \in 1..Len(c.cps) : c.cps[i] \in WhiteSpace
\* !s.trim()
TrimIsEmpty(s) == \A i \in 1..Len(s) : BlankChunk(s[i])

\* ------------------------------------------------------------ result ZIPs

EntryNames ==
    {"a.md", "b.md", "blank.md", "README.MD", "img1.png", "page-3.png", "page0.png",
     "cover.png", "d/", "meta.json"}

\* An entry of a ZIP: its name, and whether its data can be read and decoded.
EntryPool ==
    [name : EntryNames, readable : {TRUE}]
    \cup [name : {"a.md", "img1.png"}, readable : {FALSE}]

RECURSIVE SeqsUpTo(_, _)
SeqsUpTo(S, n) ==
    IF n = 0 THEN {<<>>}
    ELSE LET shorter == SeqsUpTo(S, n - 1)
         IN  shorter \cup {Append(q, e) : q \in {x \in shorter : Len(x) = n - 1}, e \in S}

\* A downloaded body: a ZIP with its entries in central-directory order, or
\* bytes that are no ZIP at all.
NotAZip == [valid |-> FALSE, entries |-> <<>>]
Bodies == {NotAZip} \cup [valid : {TRUE}, entries : SeqsUpTo(EntryPool, MaxEntries)]

\* `img_${Date.now()}_${Math.random()...}`: the clock and the random source
\* may or may not repeat a value.
ImageIds == {"img_1_a", "img_1_b"}

NoPromise == [state |-> "none", markdownContent |-> <<>>, images |-> <<>>, reason |-> Err("", "")]

\* ------------------------------------------------------- the graph nodes

\* A message: its id, its type, the string getStringFromContent makes of its
\* content, its content parts where the content is an array, and its
\* additional_kwargs.documents.
NoMessage ==
    [id |-> Absent, type |-> Absent, text |-> <<>>, parts |-> <<>>, documents |-> <<>>]
\* The graph state before a run is set up, and a node's return value before
\* any node ran.
\* directPDFMarkdown where it is undefined, and an artifact where none was made.
NoDirectPDF == [defined |-> FALSE, markdown |-> <<>>, fileName |-> <<>>]
NoArtifact == [currentIndex |-> 0, contents |-> <<>>]
NoState ==
    [_messages |-> <<>>, artifact |-> FALSE, flags |-> {}, directPDFMarkdown |-> NoDirectPDF]
\* keys: the properties the returned object has (a property may be there with
\* the value undefined); error: the message of what was thrown instead.
NoUpdate ==
    [keys |-> {}, next |-> Absent, messages |-> <<>>, _messages |-> <<>>,
     directPDFMarkdown |-> NoDirectPDF, artifact |-> NoArtifact, error |-> Absent]

\* Texts are kept as sequences of pieces; 'PDF Content:' and the blank line
\* after it are pieces of their own.
PartTexts ==
    {<<"PDF Content:", "\n\n", "# Report">>,
     <<"PDF Content:", " (empty)">>,
     <<"Attached file: notes.txt">>}
\* The content parts convertContextDocumentToHumanMessage may put in its
\* message.
PartPool == [type : {"text"}, text : PartTexts] \cup {[type |-> "document", text |-> <<>>]}
\* What it resolves to: undefined, or a human message with array content.
DocMessages ==
    {NoMessage}
    \cup {[id |-> "doc", type |-> "human", text |-> <<>>, parts |-> ps, documents |-> <<>>] :
             ps \in SeqsUpTo(PartPool, MaxParts)}

PdfDocument == [type |-> "application/pdf", name |-> <<"report", ".pdf">>]
\* The messages of the conversation, before ids are given out.
MessagePool ==
    [id : {Absent}, type : {"human"}, text : {<<>>, <<" ">>, <<"summarize this">>},
     parts : {<<>>}, documents : {<<>>, <<PdfDocument>>}]
    \cup {[id |-> Absent, type |-> "ai", text |-> <<"Here you go.">>, parts |-> <<>>,
           documents |-> <<>>]}
IdAt(i) == CASE i = 1 -> "m1" [] i = 2 -> "m2" [] i = 3 -> "m3" [] OTHER -> "m4"
WithIds(ms) == [i \in 1..Len(ms) |-> [ms[i] EXCEPT !.id = IdAt(i)]]

\* The quick-action fields of the state that generatePath tests, as the set
\* of those that are set.
FlagSets ==
    {{}, {"highlightedCode"}, {"highlightedText"}, {"language"}, {"addComments"},
     {"customQuickActionId"}, {"webSearchEnabled"}, {"language", "webSearchEnabled"}}
\* What dynamicDeterminePath resolves to: a route, or nothing.
Routes == {"generateArtifact", "rewriteArtifact", "replyToGeneralInput", Absent}
\* What fixMisFormattedContextDocMessage resolves to.
FixedMessages ==
    {<<>>, <<[id |-> "fixed", type |-> "human", text |-> <<>>, parts |-> <<>>,
              documents |-> <<>>]>>}

\* ------------------------------------------------------------------- state

VARIABLES
    entry,        \* the public method called: "convert" or "wait"
    cfg,          \* apiUrl, apiToken, enabled
    pc,           \* where the call is suspended
    maxWaitTime,  \* waitForBatchCompletion's parameter
    elapsed,      \* Date.now() - startTime, as last read or awaited
    polls,        \* status queries issued by the running wait loop
    response,     \* the answer to the last POST, PUT or download
    observed,     \* the answer to the last status query
    zipUrl,       \* convert's zipUrl, once the wait has returned
    net,          \* remote calls issued so far
    cancelled,    \* the caller has signalled cancellation
    outcome,      \* how the called method settled
    body,         \* the downloaded zipBuffer
    promise,      \* the promise extractZipContent returned
    totalEntries,     \* extractZipContent's locals
    processedEntries,
    markdownContent,
    images,
    cursor,       \* entries the open zipfile has delivered so far
    state,        \* the graph state generatePath / directPDFToArtifact is given
    docMessage,   \* what convertContextDocumentToHumanMessage resolved to
    node,         \* the graph node that runs next
    update        \* what the node that ran last returned

vars == <<entry, cfg, pc, maxWaitTime, elapsed, polls, response, observed, zipUrl, net,
          cancelled, outcome, body, promise, totalEntries, processedEntries,
          markdownContent, images, cursor, state, docMessage, node, update>>

routeVars == <<state, docMessage, node, update>>

jobVars == <<elapsed, polls, response, observed, zipUrl>>
zipVars == <<body, promise, totalEntries, processedEntries, markdownContent, images, cursor>>

Init ==
    /\ entry \in {"convert", "wait"}
    /\ cfg \in Configs
    /\ pc = "start"
    /\ maxWaitTime \in (IF entry = "convert" THEN {defaultMaxWaitTime} ELSE MaxWaitTimes)
    /\ elapsed = 0
    /\ polls = 0
    /\ response = NoResponse
    /\ observed = NoStatus
    /\ zipUrl = Absent
    /\ net = <<>>
    /\ cancelled = FALSE
    /\ outcome = NoOutcome
    /\ body = NotAZip
    /\ promise = NoPromise
    /\ totalEntries = 0
    /\ processedEntries = 0
    /\ markdownContent = <<>>
    /\ images = <<>>
    /\ cursor = 0
    /\ state = NoState
    /\ docMessage = NoMessage
    /\ node = "none"
    /\ update = NoUpdate

\* ---------------------------------------------------------- job controller

\* (mutant: only the flag is looked at)
isEnabled_FlagOnly == cfg.enabled
\* !!(this.config.enabled && this.config.apiToken && this.config.apiUrl)
isEnabled == cfg.enabled /\ cfg.apiUrl # "" /\ cfg.apiToken # ""

\* (mutant: the failure is turned into a returned error document)
Throw_ReturnsDocument(e) ==
    /\ pc' = "returned"
    /\ outcome' = [kind |-> "returned",
                   value |-> [markdown |-> <<[lit |-> e.text, cps |-> <<>>]>>,
                              images |-> <<>>, pageCount |-> 1]]

\* convert's catch block logs and rethrows; a direct call just throws.
Throw(e) ==
    /\ pc' = "thrown"
    /\ outcome' = Thrown(e)

\* (mutant: the JSON body's code is not looked at)
UploadUrlError_NoCodeCheck(r) ==
    IF ~r.ok THEN Err("Mineru upload URL request failed: ", "status")
    ELSE IF ~r.hasUrls \/ Len(r.file_urls) = 0
         THEN Err("No upload URL returned from Mineru", "")
    ELSE Err("", "")

\* requestUploadUrl's three checks of the response, in order.
UploadUrlError(r) ==
    IF ~r.ok THEN Err("Mineru upload URL request failed: ", "status")
    ELSE IF r.code # 0 THEN Err("Mineru upload URL request failed: ", "msg")
    ELSE IF ~r.hasUrls \/ Len(r.file_urls) = 0
         THEN Err("No upload URL returned from Mineru", "")
    ELSE Err("", "")

\* (mutant: the budget compared with <=)
WithinBudget_Inclusive(e) == e <= maxWaitTime
\* The while condition of waitForBatchCompletion.
WithinBudget(e) == e < maxWaitTime

\* The head of the wait loop at elapsed time e: either the next status query
\* goes out (getBatchResult up to its fetch), or the loop ends in the timeout.
WhileHead(e) ==
    /\ elapsed' = e
    /\ IF WithinBudget(e)
       THEN IF ~isEnabled
            THEN /\ Throw(Err("Mineru service is not enabled", ""))
                 /\ UNCHANGED <<polls, net>>
            ELSE /\ pc' = "query"
                 /\ polls' = polls + 1
                 /\ net' = Log(net, Call("getBatchResult", "b1"))
                 /\ outcome' = outcome
       ELSE /\ Throw(Err("Task timeout: Processing took too long", ""))
            /\ UNCHANGED <<polls, net>>

\* waitForBatchCompletion called directly.
CallWaitForBatchCompletion ==
    /\ entry = "wait"
    /\ pc = "start"
    /\ WhileHead(0)
    /\ UNCHANGED <<routeVars, entry, cfg, maxWaitTime, response, observed, zipUrl, cancelled, zipVars>>

\* convertPDFToMarkdownWithImages up to requestUploadUrl's fetch.
RequestUploadUrl ==
    /\ entry = "convert"
    /\ pc = "start"
    /\ IF ~isEnabled
       THEN /\ Throw(Err("Mineru service is not enabled or not configured properly", ""))
            /\ net' = net
       ELSE /\ pc' = "requestUploadUrl"
            /\ net' = Log(net, Call("requestUploadUrl", cfg.apiUrl))
            /\ outcome' = outcome
    /\ UNCHANGED <<routeVars, entry, cfg, maxWaitTime, jobVars, cancelled, zipVars>>

\* The POST settles; on success uploadFile's PUT goes out.
RequestUploadUrlReturn ==
    /\ pc = "requestUploadUrl"
    /\ \E r \in UploadUrlResponses :
          /\ response' = r
          /\ IF r.kind = "reject"
             THEN /\ Throw(Err("fetch failed", ""))
                  /\ net' = net
             ELSE IF UploadUrlError(r).text # ""
             THEN /\ Throw(UploadUrlError(r))
                  /\ net' = net
             ELSE /\ pc' = "uploadFile"
                  /\ net' = Log(net, Call("uploadFile", r.file_urls[1]))
                  /\ outcome' = outcome
    /\ UNCHANGED <<routeVars, entry, cfg, maxWaitTime, elapsed, polls, observed, zipUrl, cancelled,
                   zipVars>>

\* (mutant: the PUT's status is not looked at)
UploadFileReturn_IgnoresStatus ==
    /\ pc = "uploadFile"
    /\ \E r \in PlainResponses("uploadFile") :
          /\ response' = r
          /\ IF r.kind = "reject"
             THEN /\ Throw(Err("fetch failed", ""))
                  /\ UNCHANGED <<elapsed, polls, net>>
             ELSE WhileHead(0)
    /\ UNCHANGED <<routeVars, entry, cfg, maxWaitTime, observed, zipUrl, cancelled, zipVars>>

\* The PUT settles; on success waitForBatchCompletion starts.
UploadFileReturn ==
    /\ pc = "uploadFile"
    /\ \E r \in PlainResponses("uploadFile") :
          /\ response' = r
          /\ IF r.kind = "reject"
             THEN /\ Throw(Err("fetch failed", ""))
                  /\ UNCHANGED <<elapsed, polls, net>>
             ELSE IF ~r.ok
             THEN /\ Throw(Err("File upload failed: ", "status"))
                  /\ UNCHANGED <<elapsed, polls, net>>
             ELSE WhileHead(0)
    /\ UNCHANGED <<routeVars, entry, cfg, maxWaitTime, observed, zipUrl, cancelled, zipVars>>

\* (mutants: a state name the service never sends; only undefined counts as
\* a missing URL)
IsDone_WrongName(r) == r.state = "completed"
IsFailed_WrongName(r) == r.state = "error"
MissingUrl_UndefinedOnly(r) == r.full_zip_url = Absent
\* fileResult.state === 'done'
IsDone(r) == r.state = "done"
\* fileResult.state === 'failed'
IsFailed(r) == r.state = "failed"
\* !fileResult.full_zip_url
MissingUrl(r) == ~Truthy(r.full_zip_url)
\* fileResult.err_msg || 'Unknown error'
FailureDetail(r) == IF Truthy(r.err_msg) THEN r.err_msg ELSE "Unknown error"

\* What getBatchResult and the checks after it throw for a response that
\* carries no status.
BatchError(r) ==
    CASE r.kind = "reject" -> Err("fetch failed", "")
      [] r.kind = "http" -> Err("Mineru batch result query failed: ", "status")
      [] r.kind = "code" -> Err("Mineru batch result query failed: ", "msg")
      [] r.kind = "empty" -> Err("No extraction results found", "")

\* The wait loop returns url to its caller: convert goes on to
\* downloadAndParseResult's fetch, a direct caller gets the url.
WaitReturns(url) ==
    IF entry = "convert"
    THEN /\ pc' = "download"
         /\ zipUrl' = url
         /\ net' = Log(net, Call("download", url))
         /\ polls' = 0
         /\ elapsed' = 0
         /\ outcome' = outcome
    ELSE /\ pc' = "returned"
         /\ outcome' = Returned(url)
         /\ UNCHANGED <<zipUrl, net, polls, elapsed>>

\* (mutant: a response without a status is taken for a non-terminal one)
GetBatchResultReturn_SwallowsFaults ==
    /\ pc = "query"
    /\ \E d \in QueryDurations, r \in BatchResponses :
          /\ observed' = r
          /\ IF r.kind = "status" /\ IsDone(r)
             THEN IF MissingUrl(r)
                  THEN /\ Throw(Err("Task completed but no download URL provided", ""))
                       /\ elapsed' = elapsed + d
                       /\ UNCHANGED <<zipUrl, net, polls>>
                  ELSE WaitReturns(r.full_zip_url)
             ELSE IF r.kind = "status" /\ IsFailed(r)
             THEN /\ Throw(Err("Task failed: ", FailureDetail(r)))
                  /\ elapsed' = elapsed + d
                  /\ UNCHANGED <<zipUrl, net, polls>>
             ELSE /\ pc' = "sleep"
                  /\ elapsed' = elapsed + d
                  /\ UNCHANGED <<zipUrl, net, polls, outcome>>
    /\ UNCHANGED <<routeVars, entry, cfg, maxWaitTime, response, cancelled, zipVars>>

\* A status query settles after d milliseconds and the loop body runs.
GetBatchResultReturn ==
    /\ pc = "query"
    /\ \E d \in QueryDurations, r \in BatchResponses :
          /\ observed' = r
          /\ IF r.kind # "status"
             THEN /\ Throw(BatchError(r))
                  /\ elapsed' = elapsed + d
                  /\ UNCHANGED <<zipUrl, net, polls>>
             ELSE IF IsDone(r)
             THEN IF MissingUrl(r)
                  THEN /\ Throw(Err("Task completed but no download URL provided", ""))
                       /\ elapsed' = elapsed + d
                       /\ UNCHANGED <<zipUrl, net, polls>>
                  ELSE WaitReturns(r.full_zip_url)
             ELSE IF IsFailed(r)
             THEN /\ Throw(Err("Task failed: ", FailureDetail(r)))
                  /\ elapsed' = elapsed + d
                  /\ UNCHANGED <<zipUrl, net, polls>>
             ELSE /\ pc' = "sleep"
                  /\ elapsed' = elapsed + d
                  /\ UNCHANGED <<zipUrl, net, polls, outcome>>
    /\ UNCHANGED <<routeVars, entry, cfg, maxWaitTime, response, cancelled, zipVars>>

\* (mutant: the loop comes round without any delay)
SleepReturn_NoDelay ==
    /\ pc = "sleep"
    /\ observed' = NoStatus
    /\ WhileHead(elapsed)
    /\ UNCHANGED <<routeVars, entry, cfg, maxWaitTime, response, zipUrl, cancelled, zipVars>>

\* The setTimeout of pollInterval fires and the loop comes round.
SleepReturn ==
    /\ pc = "sleep"
    /\ observed' = NoStatus
    /\ \E s \in SleepDurations : WhileHead(elapsed + s)
    /\ UNCHANGED <<routeVars, entry, cfg, maxWaitTime, response, zipUrl, cancelled, zipVars>>

\* ------------------------------------------------------ container extractor

\* fileName.endsWith('.md') || fileName.endsWith('.markdown')
IsMarkdownName(cs) ==
    \/ endsWith(cs, <<".", "m", "d">>)
    \/ endsWith(cs, <<".", "m", "a", "r", "k", "d", "o", "w", "n">>)

ImageExtensions ==
    {<<"j", "p", "g">>, <<"j", "p", "e", "g">>, <<"p", "n", "g">>, <<"g", "i", "f">>,
     <<"w", "e", "b", "p">>, <<"b", "m", "p">>}

\* fileName.match(/\.(jpg|jpeg|png|gif|webp|bmp)$/i)
IsImageName(cs) ==
    \E ext \in ImageExtensions : endsWith(toLowerCase(cs), <<".">> \o ext)

\* fileName.toLowerCase().split('.').pop()
LastPart(cs) ==
    LET dots == {i \in 1..Len(cs) : cs[i] = "."}
        from == IF dots = {} THEN 1 ELSE (CHOOSE i \in dots : \A j \in dots : j <= i) + 1
    IN  SubSeq(toLowerCase(cs), from, Len(cs))

getMimeTypeFromExtension(cs) ==
    LET ext == LastPart(cs)
    IN  CASE ext = <<"j", "p", "g">> \/ ext = <<"j", "p", "e", "g">> -> "image/jpeg"
          [] ext = <<"p", "n", "g">> -> "image/png"
          [] ext = <<"g", "i", "f">> -> "image/gif"
          [] ext = <<"w", "e", "b", "p">> -> "image/webp"
          [] ext = <<"b", "m", "p">> -> "image/bmp"
          [] OTHER -> "image/jpeg"

IsDigitAt(cs, i) == i >= 1 /\ i <= Len(cs) /\ cs[i] \in Digits
IsSepAt(cs, i) == i >= 1 /\ i <= Len(cs) /\ cs[i] \in {"_", "-"}
IsPageAt(cs, i) ==
    /\ i >= 1
    /\ i + 3 <= Len(cs)
    /\ toLowerCase(SubSeq(cs, i, i + 3)) = <<"p", "a", "g", "e">>
\* The end of the longest run of digits that starts at i.
RunEnd(cs, i) == CHOOSE j \in i..Len(cs) :
    /\ \A k \in i..j : IsDigitAt(cs, k)
    /\ ~IsDigitAt(cs, j + 1)
\* parseInt of the digits cs[i..j]
RECURSIVE ParseInt(_, _, _)
ParseInt(cs, i, j) ==
    IF j < i THEN 0 ELSE 10 * ParseInt(cs, i, j - 1) + DigitValue(cs[j])

\* /page[_-]?(\d+)/i matched at position i: the start of group 1, or 0.
PageThenDigits(cs, i) ==
    IF ~IsPageAt(cs, i) THEN 0
    ELSE IF IsSepAt(cs, i + 4) /\ IsDigitAt(cs, i + 5) THEN i + 5
    ELSE IF IsDigitAt(cs, i + 4) THEN i + 4
    ELSE 0
\* /(\d+)[_-]?page/i matched at position i
DigitsThenPage(cs, i) ==
    /\ IsDigitAt(cs, i)
    /\ LET k == RunEnd(cs, i) + 1
       IN  \/ IsSepAt(cs, k) /\ IsPageAt(cs, k + 1)
           \/ IsPageAt(cs, k)

\* fileName.match(/page[_-]?(\d+)|(\d+)[_-]?page/i), then
\* parseInt(match[1] || match[2]); << >> is undefined.
extractPageNumberFromFileName(cs) ==
    LET hits == {i \in 1..Len(cs) : PageThenDigits(cs, i) # 0 \/ DigitsThenPage(cs, i)}
    IN  IF hits = {} THEN <<>>
        ELSE LET i == CHOOSE h \in hits : \A g \in hits : h <= g
                 from == IF PageThenDigits(cs, i) # 0 THEN PageThenDigits(cs, i) ELSE i
             IN  <<ParseInt(cs, from, RunEnd(cs, from))>>

\* (mutant: the page number is taken from the generated id)
ImageRecord_PageFromId(id, name) ==
    [id |-> id,
     name |-> name,
     type |-> getMimeTypeFromExtension(Chars(name)),
     data |-> Base64(ContentOf(name)),
     pageNumber |-> IF id = "img_1_a" THEN <<1>> ELSE <<2>>]

\* The ProcessedImage pushed for an image entry.
ImageRecord(id, name) ==
    [id |-> id,
     name |-> name,
     type |-> getMimeTypeFromExtension(Chars(name)),
     data |-> Base64(ContentOf(name)),
     pageNumber |-> extractPageNumberFromFileName(Chars(name))]

\* (mutant: the new fragment goes in front)
AppendMarkdown_InFront(md, name) == <<Text(Utf8Decode(ContentOf(name))), Lit("\n\n")>> \o md
\* markdownContent += fileContent.toString('utf8') + '\n\n'
AppendMarkdown(md, name) == md \o <<Text(Utf8Decode(ContentOf(name))), Lit("\n\n")>>
\* images.push(...)
PushImage(imgs, img) == Append(imgs, img)

Pending == [NoPromise EXCEPT !.state = "pending"]
\* resolve / reject settle the promise once; a later call changes nothing.
Resolve(md, imgs) ==
    IF promise.state = "pending"
    THEN [promise EXCEPT !.state = "resolved", !.markdownContent = md, !.images = imgs]
    ELSE promise
Reject(e) ==
    IF promise.state = "pending"
    THEN [promise EXCEPT !.state = "rejected", !.reason = e]
    ELSE promise

\* processedEntries >= totalEntries, after the increment
AllProcessed(n) == n >= totalEntries

\* processedEntries++, then resolve or readEntry: the tail every per-entry
\* path of the second pass ends with.  md and imgs are markdownContent and
\* images as the path leaves them.
EntryProcessed(md, imgs) ==
    /\ markdownContent' = md
    /\ images' = imgs
    /\ processedEntries' = processedEntries + 1
    /\ IF AllProcessed(processedEntries + 1)
       THEN /\ promise' = Resolve(md, imgs)
            /\ pc' = "settled"
       ELSE /\ promise' = promise
            /\ pc' = "read"

\* The fetch of the ZIP settles; on success parseZipContent calls
\* extractZipContent, which calls yauzl.fromBuffer.
DownloadReturn ==
    /\ pc = "download"
    /\ \E r \in PlainResponses("download") :
          /\ response' = r
          /\ IF r.kind = "reject"
             THEN /\ Throw(Err("fetch failed", ""))
                  /\ UNCHANGED <<body, promise>>
             ELSE IF ~r.ok
             THEN /\ Throw(Err("Failed to download result: ", "status"))
                  /\ UNCHANGED <<body, promise>>
             ELSE /\ \E b \in Bodies : body' = b
                  /\ promise' = Pending
                  /\ pc' = "fromBuffer"
                  /\ outcome' = outcome
    /\ UNCHANGED <<routeVars, entry, cfg, maxWaitTime, elapsed, polls, observed, zipUrl, net,
                   cancelled, totalEntries, processedEntries, markdownContent, images,
                   cursor>>

\* yauzl.fromBuffer calls back: with an error (or with nothing at all) for
\* bytes that are no ZIP, else with the zipfile, whose first pass starts.
FromBufferCallback ==
    /\ pc = "fromBuffer"
    /\ IF ~body.valid
       THEN /\ \E e \in {Err("Failed to open ZIP file: ", "err.message"),
                         Err("Failed to create zipfile instance", "")} :
                  promise' = Reject(e)
            /\ pc' = "settled"
       ELSE /\ pc' = "count"
            /\ promise' = promise
    /\ totalEntries' = 0
    /\ processedEntries' = 0
    /\ markdownContent' = <<>>
    /\ images' = <<>>
    /\ cursor' = 0
    /\ UNCHANGED <<routeVars, entry, cfg, maxWaitTime, jobVars, net, cancelled, outcome, body>>

\* First pass, 'entry': count it and ask for the next.
CountEntry ==
    /\ pc = "count"
    /\ cursor < Len(body.entries)
    /\ cursor' = cursor + 1
    /\ totalEntries' = totalEntries + 1
    /\ UNCHANGED <<routeVars, entry, cfg, pc, maxWaitTime, jobVars, net, cancelled, outcome, body,
                   promise, processedEntries, markdownContent, images>>

\* First pass, 'end': open the buffer a second time.
CountEnd ==
    /\ pc = "count"
    /\ cursor = Len(body.entries)
    /\ pc' = "reopen"
    /\ UNCHANGED <<routeVars, entry, cfg, maxWaitTime, jobVars, net, cancelled, outcome, zipVars>>

\* First pass, 'error': the first zipfile has no 'error' listener, so the
\* emit throws out of yauzl's I/O callback.  Nothing settles the promise.
CountError ==
    /\ pc = "count"
    /\ pc' = "uncaught"
    /\ UNCHANGED <<routeVars, entry, cfg, maxWaitTime, jobVars, net, cancelled, outcome, zipVars>>

\* The second yauzl.fromBuffer calls back.
ReopenCallback ==
    /\ pc = "reopen"
    /\ \/ /\ promise' = Reject(Err("Failed to reopen ZIP file for processing", ""))
          /\ pc' = "settled"
       \/ /\ promise' = promise
          /\ pc' = "read"
    /\ cursor' = 0
    /\ UNCHANGED <<routeVars, entry, cfg, maxWaitTime, jobVars, net, cancelled, outcome, body,
                   totalEntries, processedEntries, markdownContent, images>>

\* The entry the second pass is working on.
Current == body.entries[cursor]

\* Second pass, 'entry': a directory is done at once, a file is opened.
ProcessEntry ==
    /\ pc = "read"
    /\ cursor < Len(body.entries)
    /\ cursor' = cursor + 1
    /\ IF endsWith(Chars(body.entries[cursor + 1].name), <<"/">>)
       THEN EntryProcessed(markdownContent, images)
       ELSE /\ pc' = "openReadStream"
            /\ UNCHANGED <<promise, processedEntries, markdownContent, images>>
    /\ UNCHANGED <<routeVars, entry, cfg, maxWaitTime, jobVars, net, cancelled, outcome, body,
                   totalEntries>>

\* openReadStream calls back: with an error, with no stream, or with the
\* stream, on which the listeners are put.
OpenReadStreamCallback ==
    /\ pc = "openReadStream"
    /\ \/ /\ ~Current.readable
          /\ EntryProcessed(markdownContent, images)
       \/ /\ pc' = "stream"
          /\ UNCHANGED <<promise, processedEntries, markdownContent, images>>
    /\ UNCHANGED <<routeVars, entry, cfg, maxWaitTime, jobVars, net, cancelled, outcome, body,
                   totalEntries, cursor>>

\* The stream's 'end': the entry's bytes are classified by its name.  For an
\* entry that cannot be decoded the try block throws before it changes
\* anything.
ReadStreamEnd ==
    /\ pc = "stream"
    /\ LET cs == Chars(Current.name)
       IN  IF ~Current.readable
           THEN EntryProcessed(markdownContent, images)
           ELSE IF IsMarkdownName(cs)
           THEN EntryProcessed(AppendMarkdown(markdownContent, Current.name), images)
           ELSE IF IsImageName(cs)
           THEN \E id \in ImageIds :
                   EntryProcessed(markdownContent,
                                  PushImage(images, ImageRecord(id, Current.name)))
           ELSE EntryProcessed(markdownContent, images)
    /\ UNCHANGED <<routeVars, entry, cfg, maxWaitTime, jobVars, net, cancelled, outcome, body,
                   totalEntries, cursor>>

\* (mutant: a stream error rejects the whole extraction)
ReadStreamError_Rejects ==
    /\ pc = "stream"
    /\ ~body.entries[cursor].readable
    /\ promise' = Reject(Err("streamErr.message", ""))
    /\ pc' = "settled"
    /\ UNCHANGED <<routeVars, entry, cfg, maxWaitTime, jobVars, net, cancelled, outcome, body,
                   totalEntries, processedEntries, markdownContent, images, cursor>>

\* The stream's 'error'.
ReadStreamError ==
    /\ pc = "stream"
    /\ ~Current.readable
    /\ EntryProcessed(markdownContent, images)
    /\ UNCHANGED <<routeVars, entry, cfg, maxWaitTime, jobVars, net, cancelled, outcome, body,
                   totalEntries, cursor>>

\* (mutant: the second pass's 'end' resolves nothing)
ProcessEnd_ResolvesNothing ==
    /\ pc = "read"
    /\ cursor = Len(body.entries)
    /\ pc' = "ended"
    /\ UNCHANGED <<routeVars, entry, cfg, maxWaitTime, jobVars, net, cancelled, outcome, zipVars>>

\* Second pass, 'end'.
ProcessEnd ==
    /\ pc = "read"
    /\ cursor = Len(body.entries)
    /\ IF totalEntries = 0
       THEN /\ promise' = Resolve(<<>>, <<>>)
            /\ pc' = "settled"
       ELSE /\ promise' = promise
            /\ pc' = "ended"
    /\ UNCHANGED <<routeVars, entry, cfg, maxWaitTime, jobVars, net, cancelled, outcome, body,
                   totalEntries, processedEntries, markdownContent, images, cursor>>

\* Second pass, 'error'.
ProcessError ==
    /\ pc = "read"
    /\ promise' = Reject(Err("zipErr.message", ""))
    /\ pc' = "settled"
    /\ UNCHANGED <<routeVars, entry, cfg, maxWaitTime, jobVars, net, cancelled, outcome, body,
                   totalEntries, processedEntries, markdownContent, images, cursor>>

\* img.pageNumber, where it is truthy
TruthyPage(img) == img.pageNumber # <<>> /\ img.pageNumber[1] # 0

RECURSIVE ImageList(_, _)
\* The '## Image' sections of the fallback document, for images[i..].
ImageList(imgs, i) ==
    IF i > Len(imgs) THEN <<>>
    ELSE <<Lit("\n## Image "), Lit(ToString(i)), Lit(": "), Lit(imgs[i].name), Lit("\n")>>
         \o (IF TruthyPage(imgs[i])
             THEN <<Lit("- Page: "), Lit(ToString(imgs[i].pageNumber[1])), Lit("\n")>>
             ELSE <<>>)
         \o ImageList(imgs, i + 1)

\* finalMarkdown of parseZipContent
FinalMarkdown(md, imgs) ==
    IF ~TrimIsEmpty(md) THEN md
    ELSE IF Len(imgs) > 0
    THEN <<Lit("# PDF Content\n\nThis PDF contains "), Lit(ToString(Len(imgs))),
           Lit(" image(s). The images have been extracted and can be processed by vision-capable models.\n")>>
         \o ImageList(imgs, 1)
    ELSE <<Lit("# PDF Content\n\nNo readable content found in this PDF.")>>

Max(S) == CHOOSE x \in S : \A y \in S : y <= x
\* Math.max(1, ...images.map(img => img.pageNumber || 1))
PageCount(imgs) ==
    Max({1} \cup {(IF TruthyPage(imgs[i]) THEN imgs[i].pageNumber[1] ELSE 1) : i \in 1..Len(imgs)})

\* The PDFConversionResult (metadata.title and metadata.processingTime, which
\* nothing reads, are left out).
ConversionResult(md, imgs) ==
    [markdown |-> FinalMarkdown(md, imgs), images |-> imgs, pageCount |-> PageCount(imgs)]

\* The result parseZipContent's catch block returns.
ErrorResult(e) ==
    [markdown |-> <<Lit("# PDF Processing Error\n\nFailed to parse PDF content: "),
                    Lit(e.text), Lit(e.detail),
                    Lit("\n\nThis may be due to an unsupported PDF format or corrupted file.")>>,
     images |-> <<>>,
     pageCount |-> 1]

\* parseZipContent resumes after its await, and its result goes back through
\* downloadAndParseResult and convertPDFToMarkdownWithImages.
ParseZipContentResume ==
    /\ pc = "settled"
    /\ pc' = "returned"
    /\ outcome' = Returned(IF promise.state = "resolved"
                           THEN ConversionResult(promise.markdownContent, promise.images)
                           ELSE ErrorResult(promise.reason))
    /\ UNCHANGED <<routeVars, entry, cfg, maxWaitTime, jobVars, net, cancelled, zipVars>>

\* The caller signals cancellation while the call is pending.  Nothing in
\* MineruService takes or reads such a signal.
Cancel ==
    /\ pc \in {"query", "sleep"}
    /\ ~cancelled
    /\ cancelled' = TRUE
    /\ UNCHANGED <<routeVars, entry, cfg, pc, maxWaitTime, jobVars, net, outcome, zipVars>>

Next ==
    \/ CallWaitForBatchCompletion
    \/ RequestUploadUrl
    \/ RequestUploadUrlReturn
    \/ UploadFileReturn
    \/ GetBatchResultReturn
    \/ SleepReturn
    \/ DownloadReturn
    \/ FromBufferCallback
    \/ CountEntry
    \/ CountEnd
    \/ CountError
    \/ ReopenCallback
    \/ ProcessEntry
    \/ OpenReadStreamCallback
    \/ ReadStreamEnd
    \/ ReadStreamError
    \/ ProcessEnd
    \/ ProcessError
    \/ ParseZipContentResume

Spec == Init /\ [][Next]_vars

SpecCancel == Init /\ [][Next \/ Cancel]_vars

\* ------------------------------------------------------- the graph nodes

\* String.prototype.includes, for a piece
Includes(text, piece) == \E i \in 1..Len(text) : text[i] = piece
\* messageContent.trim().length === 0
IsBlankText(text) == \A i \in 1..Len(text) : text[i] \in {" ", "\n\n"}

\* typeof content === 'object' && content.type === 'text' &&
\* content.text?.includes('PDF Content:')
IsPdfContent(c) == c.type = "text" /\ Includes(c.text, "PDF Content:")
\* docMessage.content.find(...): the index of the first such part, or 0
FindPdfContent(m) ==
    LET hits == {i \in 1..Len(m.parts) : IsPdfContent(m.parts[i])}
    IN  IF hits = {} THEN 0 ELSE CHOOSE i \in hits : \A j \in hits : i <= j

\* text.replace('PDF Content:\n\n', ''): the first occurrence goes
RemovePdfPrefix(text) ==
    LET hits == {i \in 1..(Len(text) - 1) :
                    text[i] = "PDF Content:" /\ text[i + 1] = "\n\n"}
    IN  IF hits = {} THEN text
        ELSE LET i == CHOOSE h \in hits : \A g \in hits : h <= g
             IN  SubSeq(text, 1, i - 1) \o SubSeq(text, i + 2, Len(text))

\* documents.find(doc => doc.type === 'application/pdf' ||
\* doc.name?.endsWith('.pdf')), then pdfDoc?.name
PdfDocName(documents) ==
    LET hits == {i \in 1..Len(documents) :
                    \/ documents[i].type = "application/pdf"
                    \/ (Len(documents[i].name) > 0
                        /\ documents[i].name[Len(documents[i].name)] = ".pdf")}
    IN  IF hits = {} THEN <<>>
        ELSE documents[CHOOSE i \in hits : \A j \in hits : i <= j].name

RECURSIVE NameFrom(_, _)
\* The loop of extractPDFFileName over messages[i], messages[i-1], ... within
\* the last three messages.
NameFrom(messages, i) ==
    IF i < 1 \/ i < Len(messages) - 2 THEN <<"PDF Document">>
    ELSE IF PdfDocName(messages[i].documents) # <<>>
    THEN PdfDocName(messages[i].documents)
    ELSE NameFrom(messages, i - 1)
extractPDFFileName(messages) == NameFrom(messages, Len(messages))

\* fileName.replace('.pdf', '')
RemovePdfSuffix(name) ==
    LET hits == {i \in 1..Len(name) : name[i] = ".pdf"}
    IN  IF hits = {} THEN name
        ELSE LET i == CHOOSE h \in hits : \A g \in hits : h <= g
             IN  SubSeq(name, 1, i - 1) \o SubSeq(name, i + 1, Len(name))

\* (mutant: the type of the last message is not looked at)
checkUserHasAdditionalText_AnyType(messages) ==
    IF Len(messages) = 0 THEN FALSE
    ELSE ~IsBlankText(messages[Len(messages)].text)

checkUserHasAdditionalText(messages) ==
    IF Len(messages) = 0 THEN FALSE
    ELSE IF messages[Len(messages)].type # "human" THEN FALSE
    ELSE ~IsBlankText(messages[Len(messages)].text)

\* m.content.some(c => c.type === "document" || c.type === "application/pdf")
HasDocumentPart(m) ==
    \E i \in 1..Len(m.parts) : m.parts[i].type \in {"document", "application/pdf"}

\* newMessages where the early returns have not been taken: the push at the
\* top, then the push (or the fixed messages) after the search for an
\* existing document message.
NewMessages(fixed) ==
    LET pushed == IF docMessage # NoMessage THEN <<docMessage>> ELSE <<>>
        existing == {i \in 1..Len(pushed) : HasDocumentPart(pushed[i])}
    IN  IF docMessage # NoMessage THEN Append(pushed, docMessage)
        ELSE IF existing # {} THEN pushed \o fixed
        ELSE pushed

\* { next, ...(newMessages.length ? { messages, _messages } : {}) }
WithNewMessages(next, new) ==
    IF Len(new) > 0
    THEN [NoUpdate EXCEPT !.keys = {"next", "messages", "_messages"}, !.next = next,
                          !.messages = new, !._messages = new]
    ELSE [NoUpdate EXCEPT !.keys = {"next"}, !.next = next]

\* The node of the first quick-action test that succeeds, or Absent.
QuickRoute ==
    IF "highlightedCode" \in state.flags THEN "updateArtifact"
    ELSE IF "highlightedText" \in state.flags THEN "updateHighlightedText"
    ELSE IF "language" \in state.flags THEN "rewriteArtifactTheme"
    ELSE IF "addComments" \in state.flags THEN "rewriteCodeArtifactTheme"
    ELSE IF "customQuickActionId" \in state.flags THEN "customAction"
    ELSE IF "webSearchEnabled" \in state.flags THEN "webSearch"
    ELSE Absent

NodeThrew(message) == [NoUpdate EXCEPT !.error = message]

\* state._messages.map(m => m.id === updated.id ? updated : m), where
\* includeURLContents gave back the last message with the contents added
WithURLContents(messages) ==
    LET last == messages[Len(messages)]
        updated == [last EXCEPT !.text = Append(@, "<page contents>")]
    IN  [i \in 1..Len(messages) |->
            IF messages[i].id = updated.id THEN updated ELSE messages[i]]

\* What generatePath returns or throws. fixed: what
\* fixMisFormattedContextDocMessage resolves to; scraped: whether the last
\* message holds URLs and includeURLContents resolves to a message; route:
\* what dynamicDeterminePath resolves to.
generatePath(fixed, scraped, route) ==
    LET pdfContent == FindPdfContent(docMessage)
    IN  IF docMessage # NoMessage /\ pdfContent # 0
        THEN IF ~checkUserHasAdditionalText(state._messages)
             THEN [NoUpdate EXCEPT
                      !.keys = {"next", "directPDFMarkdown", "messages", "_messages"},
                      !.next = "directPDFToArtifact",
                      !.directPDFMarkdown =
                          [defined |-> TRUE,
                           markdown |-> RemovePdfPrefix(docMessage.parts[pdfContent].text),
                           fileName |-> extractPDFFileName(state._messages)],
                      !.messages = <<docMessage>>,
                      !._messages = <<docMessage>>]
             ELSE WithNewMessages(IF state.artifact THEN "rewriteArtifact"
                                  ELSE "generateArtifact", <<docMessage>>)
        ELSE LET newMessages == NewMessages(fixed)
             IN  IF QuickRoute # Absent THEN WithNewMessages(QuickRoute, newMessages)
                 ELSE IF Len(state._messages) = 0
                 THEN NodeThrew("TypeError")
                 ELSE LET newInternalMessageList ==
                              IF scraped THEN WithURLContents(state._messages)
                              ELSE state._messages
                      IN  IF route = Absent THEN NodeThrew("Route not found")
                          ELSE IF Len(newMessages) > 0
                          THEN [NoUpdate EXCEPT
                                   !.keys = {"next", "messages", "_messages"},
                                   !.next = route,
                                   !.messages = newMessages,
                                   !._messages = newInternalMessageList \o newMessages]
                          ELSE [NoUpdate EXCEPT
                                   !.keys = {"next", "_messages"},
                                   !.next = route,
                                   !._messages = newInternalMessageList]

\* What directPDFToArtifact returns or throws.
directPDFToArtifact ==
    IF ~state.directPDFMarkdown.defined
    THEN NodeThrew("No direct PDF markdown content found")
    ELSE [NoUpdate EXCEPT
             !.keys = {"artifact", "directPDFMarkdown"},
             !.artifact =
                 [currentIndex |-> 1,
                  contents |-> <<[index |-> 1, type |-> "text",
                                  title |-> RemovePdfSuffix(state.directPDFMarkdown.fileName),
                                  fullMarkdown |-> state.directPDFMarkdown.markdown]>>],
             !.directPDFMarkdown = NoDirectPDF]

\* The graph takes a node's return value into the state: directPDFMarkdown
\* and artifact are replaced by what the node returned. writesUndefined:
\* whether a property returned as undefined replaces the value too.
ApplyUpdate(s, u, writesUndefined) ==
    [s EXCEPT
        !.directPDFMarkdown =
            IF "directPDFMarkdown" \in u.keys
               /\ (u.directPDFMarkdown.defined \/ writesUndefined)
            THEN u.directPDFMarkdown ELSE @,
        !.artifact = IF "artifact" \in u.keys THEN TRUE ELSE @]

\* The generatePath node runs; the graph then goes to the node it names.
GeneratePath ==
    /\ node = "generatePath"
    /\ update' \in {generatePath(fixed, scraped, route) :
                        fixed \in FixedMessages, scraped \in BOOLEAN, route \in Routes}
    /\ node' = IF update'.error # Absent THEN "thrown" ELSE update'.next
    /\ state' = IF update'.error # Absent THEN state
                ELSE ApplyUpdate(state, update', FALSE)
    /\ UNCHANGED <<docMessage, entry, cfg, pc, maxWaitTime, net, cancelled, outcome,
                   jobVars, zipVars>>

\* The directPDFToArtifact node runs; the graph ends after it.
DirectPDFToArtifact ==
    /\ node = "directPDFToArtifact"
    /\ update' = directPDFToArtifact
    /\ node' = IF update'.error # Absent THEN "thrown" ELSE "end"
    /\ \E writesUndefined \in BOOLEAN :
          state' = IF update'.error # Absent THEN state
                   ELSE ApplyUpdate(state, update', writesUndefined)
    /\ UNCHANGED <<docMessage, entry, cfg, pc, maxWaitTime, net, cancelled, outcome,
                   jobVars, zipVars>>

\* A run of the graph: any conversation, any converted context document, no
\* conversion job under way.
InitRoute ==
    /\ entry = "convert"
    /\ cfg = [enabled |-> FALSE, apiUrl |-> "", apiToken |-> ""]
    /\ pc = "start"
    /\ maxWaitTime = defaultMaxWaitTime
    /\ elapsed = 0
    /\ polls = 0
    /\ response = NoResponse
    /\ observed = NoStatus
    /\ zipUrl = Absent
    /\ net = <<>>
    /\ cancelled = FALSE
    /\ outcome = NoOutcome
    /\ body = NotAZip
    /\ promise = NoPromise
    /\ totalEntries = 0
    /\ processedEntries = 0
    /\ markdownContent = <<>>
    /\ images = <<>>
    /\ cursor = 0
    /\ state \in [_messages : {WithIds(ms) : ms \in SeqsUpTo(MessagePool, MaxMessages)},
                  artifact : BOOLEAN,
                  flags : FlagSets,
                  directPDFMarkdown : {NoDirectPDF}]
    /\ docMessage \in DocMessages
    /\ node = "generatePath"
    /\ update = NoUpdate

NextRoute ==
    \/ GeneratePath
    \/ DirectPDFToArtifact

SpecRoute == InitRoute /\ [][NextRoute]_vars

\* ------------------------------------------------------------------ claims

\* A step that sends a status query.
QueryIssued == pc' = "query" /\ pc # "query"
\* The places from which the wait loop can still send one.
BeforeOrInLoop == {"start", "requestUploadUrl", "uploadFile", "query", "sleep"}

SawDone == observed.kind = "status" /\ observed.state = "done"
SawLocator == SawDone /\ observed.full_zip_url \notin {Absent, ""}
SawNoLocator == SawDone /\ observed.full_zip_url \in {Absent, ""}
SawFailed == observed.kind = "status" /\ observed.state = "failed"
Downloads == {i \in 1..Len(net) : net[i].op = "download"}

\* C1: once a poll has observed 'done' with a result locator, the wait loop
\* has returned exactly that locator (to the direct caller, or to convert,
\* which downloads from it), and no status query is sent from then on.
C1_DoneReturnsLocator ==
    /\ [](SawLocator =>
            /\ pc \notin BeforeOrInLoop
            /\ entry = "wait" =>
                  pc = "returned" /\ outcome = Returned(observed.full_zip_url)
            /\ entry = "convert" =>
                  /\ zipUrl = observed.full_zip_url
                  /\ net[Len(net)] = Call("download", observed.full_zip_url))
    /\ [][SawLocator => ~QueryIssued /\ polls' = polls]_vars

\* Reached: a direct call saw two non-terminal statuses, then 'done'.
C1_Witness ==
    /\ entry = "wait"
    /\ polls = 3
    /\ SawLocator
    /\ outcome = Returned("https://zip/2")

\* C2: once a poll has observed 'failed', the call has failed with the
\* 'Task failed' error that carries the remote message ('Unknown error' if
\* there is none), and that poll stays the last remote call: nothing is sent
\* and nothing moves afterwards.
C2_FailedStopsAtOnce ==
    /\ [](SawFailed =>
            /\ pc = "thrown"
            /\ outcome = Thrown(Err("Task failed: ",
                                    IF observed.err_msg \in {Absent, ""}
                                    THEN "Unknown error" ELSE observed.err_msg))
            /\ net[Len(net)].op = "getBatchResult"
            /\ Downloads = {})
    /\ [][SawFailed => UNCHANGED <<pc, net, polls>>]_vars

\* Reached: convert's second poll came back 'failed' with a message.
C2_Witness ==
    /\ entry = "convert"
    /\ polls = 2
    /\ SawFailed
    /\ outcome = Thrown(Err("Task failed: ", "bad pdf"))

TimedOut ==
    pc = "thrown" /\ outcome = Thrown(Err("Task timeout: Processing took too long", ""))

\* C3 as claimed: at the timeout the number of status queries is within 1 of
\* ceil(maxWait / pollInterval), however long the queries took.
C3_PollCountWithinOne ==
    TimedOut =>
        /\ polls <= Ceil(maxWaitTime, pollInterval)
        /\ polls >= Ceil(maxWaitTime, pollInterval) - 1

\* C3 as amended: the wait loop never sends more than
\* ceil(maxWait / pollInterval) status queries; it times out only once
\* maxWait has elapsed; and at the timeout it has sent exactly that many if
\* no query took any time and every sleep lasted exactly pollInterval.
C3_PollCountAtMostCeil ==
    /\ polls <= Ceil(maxWaitTime, pollInterval)
    /\ TimedOut => elapsed >= maxWaitTime
    /\ TimedOut /\ elapsed = polls * pollInterval =>
          polls = Ceil(maxWaitTime, pollInterval)

\* Reached: a budget of 12.5 s used up by three prompt polls.
C3_Witness ==
    /\ TimedOut
    /\ maxWaitTime > 2 * pollInterval
    /\ polls = 3
    /\ elapsed = 3 * pollInterval

\* C4 as claimed: after the caller has signalled cancellation no status
\* query is sent.
C4_CancelStopsPolling == [][cancelled => ~QueryIssued]_vars

\* C5: once a poll has observed 'done' without a result locator, the call
\* has failed with the 'no download URL' error, no locator was returned,
\* nothing was downloaded, and nothing is sent afterwards.
C5_DoneWithoutLocatorFails ==
    /\ [](SawNoLocator =>
            /\ pc = "thrown"
            /\ outcome = Thrown(Err("Task completed but no download URL provided", ""))
            /\ zipUrl = Absent
            /\ Downloads = {})
    /\ [][SawNoLocator => UNCHANGED <<pc, net, polls>>]_vars

\* Reached: convert's poll came back 'done' with an empty full_zip_url.
C5_Witness ==
    /\ entry = "convert"
    /\ SawNoLocator
    /\ observed.full_zip_url = ""
    /\ pc = "thrown"

NoCallOf(op) == \A i \in 1..Len(net) : net[i].op # op

Unconfigured == ~cfg.enabled \/ cfg.apiUrl = "" \/ cfg.apiToken = ""

\* C6: with the enabled flag false, or the base URL empty, or the credential
\* empty, no remote call of any kind (upload-location request, upload,
\* status query, download) is ever issued, and convert fails, at its first
\* step, with the 'not enabled or not configured' error.
C6_UnconfiguredMakesNoCall ==
    Unconfigured =>
        /\ net = <<>>
        /\ polls = 0
        /\ pc \in {"start", "thrown"}
        /\ entry = "convert" /\ pc = "thrown" =>
              outcome = Thrown(Err("Mineru service is not enabled or not configured properly", ""))

\* Reached: convert failed with the flag set and the URL there, but no token.
C6_Witness ==
    /\ entry = "convert"
    /\ cfg = [enabled |-> TRUE, apiUrl |-> "https://mineru", apiToken |-> ""]
    /\ pc = "thrown"

UploadLocationAnswered == response.op = "requestUploadUrl" /\ response.kind = "http"
NoUploadLocation == ~response.hasUrls \/ response.file_urls = <<>>
UploadAnswered == response.op = "uploadFile" /\ response.kind = "http"

\* C7: when the upload-location response has a non-success HTTP status, a
\* non-zero code, or no (or an empty) list of upload locations, convert has
\* failed with the upload-rejected error and no upload was attempted; when
\* the upload's response has a non-success status, convert has failed with
\* the 'File upload failed' error; in each case no status query is issued.
C7_UploadFailuresNeverPoll ==
    /\ UploadLocationAnswered /\ (~response.ok \/ response.code # 0 \/ NoUploadLocation) =>
          /\ pc = "thrown"
          /\ outcome = Thrown(IF ~response.ok
                              THEN Err("Mineru upload URL request failed: ", "status")
                              ELSE IF response.code # 0
                              THEN Err("Mineru upload URL request failed: ", "msg")
                              ELSE Err("No upload URL returned from Mineru", ""))
          /\ NoCallOf("uploadFile")
          /\ NoCallOf("getBatchResult")
          /\ polls = 0
    /\ UploadAnswered /\ ~response.ok =>
          /\ pc = "thrown"
          /\ outcome = Thrown(Err("File upload failed: ", "status"))
          /\ NoCallOf("getBatchResult")
          /\ polls = 0

\* Reached: HTTP 200 with upload locations, but a non-zero code.
C7_Witness ==
    /\ UploadLocationAnswered
    /\ response.ok
    /\ response.code # 0
    /\ ~NoUploadLocation
    /\ pc = "thrown"

IsMarkdownEntry(e) == IsMarkdownName(Chars(e.name))
IsImageEntry(e) == ~IsMarkdownName(Chars(e.name)) /\ IsImageName(Chars(e.name))
IsReadableMarkdownEntry(e) == e.readable /\ IsMarkdownEntry(e)
IsReadableImageEntry(e) == e.readable /\ IsImageEntry(e)
IsTextChunk(c) == c.lit = ""

\* The decoded texts of the entries es, one chunk each.
TextsOf(es) == [i \in 1..Len(es) |-> Text(Utf8Decode(ContentOf(es[i].name)))]
\* The same, each followed by the blank line.
RECURSIVE FragmentsOf(_)
FragmentsOf(es) ==
    IF es = <<>> THEN <<>>
    ELSE <<Text(Utf8Decode(ContentOf(Head(es).name))), Lit("\n\n")>> \o FragmentsOf(Tail(es))
\* imgs is made of one record per entry of es, in the same order.
OneImagePerEntry(imgs, es) ==
    /\ Len(imgs) = Len(es)
    /\ \A i \in 1..Len(es) :
          /\ imgs[i].name = es[i].name
          /\ imgs[i].data = Base64(ContentOf(es[i].name))

Delivered == SubSeq(body.entries, 1, cursor)

\* C8 as claimed: for every container whose extraction completes, the
\* markdown is made of the texts of all of its markdown entries, in
\* enumeration order, and the images are one record per image entry, in
\* enumeration order.
C8_OneContributionPerEntry ==
    promise.state = "resolved" =>
        /\ SelectSeq(promise.markdownContent, IsTextChunk)
              = TextsOf(SelectSeq(body.entries, IsMarkdownEntry))
        /\ OneImagePerEntry(promise.images, SelectSeq(body.entries, IsImageEntry))

\* C8 as amended: the same for the entries that could be read.  While the
\* second pass is between entries, and when the extraction has completed,
\* the markdown is the UTF-8 text of each readable markdown entry delivered
\* so far, each followed by a blank line, in enumeration order, and the
\* images are one record per readable image entry delivered so far, in
\* enumeration order; a completed extraction has been through every entry.
C8_OneContributionPerReadableEntry ==
    /\ pc = "read" =>
          /\ markdownContent = FragmentsOf(SelectSeq(Delivered, IsReadableMarkdownEntry))
          /\ OneImagePerEntry(images, SelectSeq(Delivered, IsReadableImageEntry))
    /\ promise.state = "resolved" =>
          /\ cursor = Len(body.entries)
          /\ promise.markdownContent
                = FragmentsOf(SelectSeq(body.entries, IsReadableMarkdownEntry))
          /\ OneImagePerEntry(promise.images, SelectSeq(body.entries, IsReadableImageEntry))

\* Reached: the container [a.md, img1.png, b.md], all readable, extracted.
C8_Witness ==
    /\ promise.state = "resolved"
    /\ body.entries = <<[name |-> "a.md", readable |-> TRUE],
                        [name |-> "img1.png", readable |-> TRUE],
                        [name |-> "b.md", readable |-> TRUE]>>
    /\ promise.markdownContent = <<Text(<<65>>), Lit("\n\n"), Text(<<66, 65533>>), Lit("\n\n")>>
    /\ Len(promise.images) = 1

ErrorHeading == Lit("# PDF Processing Error\n\nFailed to parse PDF content: ")

\* C9 as claimed: once the container has failed to open or to re-open, or
\* the archive has reported an error during either enumeration, and
\* parseZipContent is no longer waiting to resume, convert has returned a
\* result whose markdown begins with the error heading, with no images and
\* pageCount 1.
C9_CorruptContainerGivesErrorDocument ==
    (pc = "uncaught" \/ (promise.state = "rejected" /\ pc # "settled")) =>
        /\ outcome.kind = "returned"
        /\ outcome.value.markdown[1] = ErrorHeading
        /\ outcome.value.images = <<>>
        /\ outcome.value.pageCount = 1

ContainerFailures ==
    {Err("Failed to open ZIP file: ", "err.message"),
     Err("Failed to create zipfile instance", ""),
     Err("Failed to reopen ZIP file for processing", ""),
     Err("zipErr.message", "")}

\* C10: a failure to read or decode one entry never aborts the extraction.
\* Every entry the second pass has delivered is counted as processed exactly
\* once (the one being read not yet); the extraction is rejected only for a
\* failure of the container itself; and a container with unreadable entries
\* completes having been through all of its entries, with the text of every
\* readable markdown entry and an image for every readable image entry in
\* the result.
C10_EntryFailureNeverAborts ==
    /\ pc = "read" => processedEntries = cursor
    /\ pc \in {"openReadStream", "stream"} => processedEntries = cursor - 1
    /\ promise.state = "rejected" => promise.reason \in ContainerFailures
    /\ promise.state = "resolved" =>
          /\ processedEntries = Len(body.entries)
          /\ \A i \in 1..Len(body.entries) :
                LET e == body.entries[i]
                IN  /\ IsReadableMarkdownEntry(e) =>
                          \E k \in 1..Len(promise.markdownContent) :
                             promise.markdownContent[k] = Text(Utf8Decode(ContentOf(e.name)))
                    /\ IsReadableImageEntry(e) =>
                          \E k \in 1..Len(promise.images) : promise.images[k].name = e.name

\* Reached: [a.md (unreadable), b.md, img1.png] extracted to b.md's text and
\* one image.
C10_Witness ==
    /\ promise.state = "resolved"
    /\ body.entries = <<[name |-> "a.md", readable |-> FALSE],
                        [name |-> "b.md", readable |-> TRUE],
                        [name |-> "img1.png", readable |-> TRUE]>>
    /\ processedEntries = 3
    /\ promise.markdownContent = <<Text(<<66, 65533>>), Lit("\n\n")>>
    /\ Len(promise.images) = 1

\* The extraction completed and convert has returned its result.
ReturnedResult == pc = "returned" /\ promise.state = "resolved"
\* ... with no markdown content but at least one image.
FallbackCase ==
    /\ ReturnedResult
    /\ TrimIsEmpty(promise.markdownContent)
    /\ Len(promise.images) > 0

KnownPage(img) == img.pageNumber # <<>>
RECURSIVE ListingWithKnownPages(_, _)
\* The image list that names every image and gives the page of every image
\* whose page number is known.
ListingWithKnownPages(imgs, i) ==
    IF i > Len(imgs) THEN <<>>
    ELSE <<Lit("\n## Image "), Lit(ToString(i)), Lit(": "), Lit(imgs[i].name), Lit("\n")>>
         \o (IF KnownPage(imgs[i])
             THEN <<Lit("- Page: "), Lit(ToString(imgs[i].pageNumber[1])), Lit("\n")>>
             ELSE <<>>)
         \o ListingWithKnownPages(imgs, i + 1)

\* C11 as claimed: when the extraction gave no markdown content but at least
\* one image, the returned markdown is a non-empty document that states the
\* number of images and lists every image by name and, where the page number
\* is known, by page; pageCount is the largest known page number, at least
\* 1; and for [page-3.png, cover.png] the document mentions 2 images,
\* pageCount is 3, the first image has page 3 and the second none.
C11_FallbackListsKnownPages ==
    FallbackCase =>
        LET imgs == promise.images
            r == outcome.value
        IN  /\ ~TrimIsEmpty(r.markdown)
            /\ r.images = imgs
            /\ r.markdown
                  = <<Lit("# PDF Content\n\nThis PDF contains "), Lit(ToString(Len(imgs))),
                      Lit(" image(s). The images have been extracted and can be processed by vision-capable models.\n")>>
                    \o ListingWithKnownPages(imgs, 1)
            /\ r.pageCount
                  = Max({1} \cup {imgs[i].pageNumber[1] : i \in {j \in 1..Len(imgs) : KnownPage(imgs[j])}})
            /\ (Len(body.entries) = 2
                  /\ body.entries[1] = [name |-> "page-3.png", readable |-> TRUE]
                  /\ body.entries[2] = [name |-> "cover.png", readable |-> TRUE])
               => /\ r.markdown[2] = Lit("2")
                  /\ r.pageCount = 3
                  /\ imgs[1].pageNumber = <<3>>
                  /\ imgs[2].pageNumber = <<>>

EmptyContainer == body.valid /\ body.entries = <<>>
Placeholder == <<Lit("# PDF Content\n\nNo readable content found in this PDF.")>>

\* C12: a container with zero entries is never left waiting after the
\* second pass has ended and never has an entry opened; where its archive
\* reports no error its extraction completes with empty markdown and no
\* images, and the result convert returns carries the fixed 'no readable
\* content' placeholder, no images and pageCount 1.
C12_EmptyContainerGivesPlaceholder ==
    EmptyContainer =>
        /\ pc \notin {"ended", "openReadStream", "stream"}
        /\ pc = "read" => promise.state = "pending" /\ totalEntries = 0
        /\ pc \in {"settled", "returned"} /\ promise.state # "rejected" =>
              /\ promise.state = "resolved"
              /\ promise.markdownContent = <<>>
              /\ promise.images = <<>>
        /\ ReturnedResult =>
              outcome = Returned([markdown |-> Placeholder, images |-> <<>>, pageCount |-> 1])

\* Reached: convert returned for a ZIP without entries.
C12_Witness ==
    /\ EmptyContainer
    /\ ReturnedResult
    /\ outcome.value.markdown = Placeholder

\* The name ends in .md or .markdown, in any letter case.
HasMarkdownSuffix(e) ==
    \/ endsWith(toLowerCase(Chars(e.name)), <<".", "m", "d">>)
    \/ endsWith(toLowerCase(Chars(e.name)), <<".", "m", "a", "r", "k", "d", "o", "w", "n">>)
\* The name ends in one of the image suffixes, in any letter case.
HasImageSuffix(e) ==
    \E ext \in ImageExtensions : endsWith(toLowerCase(Chars(e.name)), <<".">> \o ext)
IsReadableWithMarkdownSuffix(e) == e.readable /\ HasMarkdownSuffix(e)
IsReadableWithImageSuffix(e) == e.readable /\ ~HasMarkdownSuffix(e) /\ HasImageSuffix(e)

\* C13 as claimed: entries are classified by suffix whatever the letter
\* case: a completed extraction holds the text of every readable entry whose
\* name ends in .md or .markdown in any case, and an image for every
\* readable entry whose name ends in an image suffix in any case.
C13_ClassificationIgnoresCase ==
    promise.state = "resolved" =>
        /\ promise.markdownContent
              = FragmentsOf(SelectSeq(body.entries, IsReadableWithMarkdownSuffix))
        /\ OneImagePerEntry(promise.images,
                            SelectSeq(body.entries, IsReadableWithImageSuffix))

CountOf(op) == Cardinality({i \in 1..Len(net) : net[i].op = op})

\* The last POST, PUT or download failed.
ResponseFailed ==
    \/ response.kind = "reject"
    \/ response.kind = "http" /\ ~response.ok
    \/ UploadLocationAnswered /\ (response.code # 0 \/ NoUploadLocation)
\* The last status query failed, or showed a failed or locator-less job.
PollFailed ==
    \/ observed.kind \in {"reject", "http", "code", "empty"}
    \/ SawFailed
    \/ SawNoLocator

\* C14: a failure of the upload-location request, the upload, a status
\* query, the wait (failed job, missing locator, timeout) or the download
\* makes the call throw: nothing is returned, the extraction is never
\* started (so no error document is made), and the failing call is the last
\* remote call.  A failed download is thrown as 'Failed to download
\* result'.  The upload-location request, the upload and the download are
\* each issued at most once per call.
C14_LifecycleFailuresThrowOnce ==
    /\ CountOf("requestUploadUrl") <= 1
    /\ CountOf("uploadFile") <= 1
    /\ CountOf("download") <= 1
    /\ (ResponseFailed \/ PollFailed \/ TimedOut) =>
          /\ pc = "thrown"
          /\ outcome.kind = "thrown"
    /\ ResponseFailed => net[Len(net)].op = response.op
    /\ PollFailed => net[Len(net)].op = "getBatchResult"
    /\ response.op = "download" /\ response.kind = "http" /\ ~response.ok =>
          outcome = Thrown(Err("Failed to download result: ", "status"))
    /\ pc = "thrown" => outcome.kind = "thrown" /\ promise.state = "none"
    /\ outcome.kind = "thrown" => pc = "thrown"

\* Reached: the download of convert's result ZIP came back non-ok.
C14_Witness ==
    /\ entry = "convert"
    /\ response.op = "download"
    /\ response.kind = "http"
    /\ ~response.ok
    /\ pc = "thrown"
    /\ net[Len(net)] = Call("download", "https://zip/2")

DownloadSucceeded == response.op = "download" /\ response.kind = "http" /\ response.ok

\* C15 as claimed: every result convert returns has markdown that is not
\* empty and not only white space; and once the job was done and the
\* download succeeded, a call that has come to its end has returned such a
\* result.
C15_DownloadedGivesUsableResult ==
    /\ entry = "convert" /\ pc = "returned" =>
          /\ outcome.value.markdown # <<>>
          /\ ~TrimIsEmpty(outcome.value.markdown)
    /\ DownloadSucceeded /\ pc \notin {"fromBuffer", "count", "reopen", "read",
                                       "openReadStream", "stream", "settled"} =>
          /\ pc = "returned"
          /\ outcome.kind = "returned"

WithoutId(img) ==
    [name |-> img.name, type |-> img.type, data |-> img.data, pageNumber |-> img.pageNumber]
\* What the bytes of the image entry e determine of its record.
RecordOf(e) ==
    [name |-> e.name,
     type |-> getMimeTypeFromExtension(Chars(e.name)),
     data |-> Base64(ContentOf(e.name)),
     pageNumber |-> extractPageNumberFromFileName(Chars(e.name))]
RecordsOf(es) == [i \in 1..Len(es) |-> RecordOf(es[i])]

\* C16: the result of a completed extraction is determined by the container
\* bytes alone, up to the generated ids: the returned markdown and, id
\* apart, the returned images are functions of the container's entries, so
\* two runs on identical bytes agree on the markdown and on every image's
\* name, type, data and page number.
C16_ResultDeterminedByContainer ==
    ReturnedResult =>
        LET records == RecordsOf(SelectSeq(body.entries, IsReadableImageEntry))
            text == FragmentsOf(SelectSeq(body.entries, IsReadableMarkdownEntry))
            r == outcome.value
        IN  /\ [i \in 1..Len(r.images) |-> WithoutId(r.images[i])] = records
            /\ r.markdown = FinalMarkdown(text, records)
            /\ r.pageCount = PageCount(records)

\* Reached: a result with two images that got different ids.
C16_Witness ==
    /\ ReturnedResult
    /\ Len(outcome.value.images) = 2
    /\ outcome.value.images[1].id # outcome.value.images[2].id
    /\ outcome.value.images[1].name = "page-3.png"

\* C17 as claimed: no two images of a returned result share an id.
C17_ImageIdsDistinct ==
    ReturnedResult =>
        \A i, j \in 1..Len(outcome.value.images) :
           i # j => outcome.value.images[i].id # outcome.value.images[j].id

SawNonTerminal == observed.kind = "status" /\ observed.state \notin {"done", "failed"}

\* C18: the wait loop never busy-waits.  A poll that observed a non-terminal
\* status leaves the loop asleep; every status query after the first is sent
\* straight out of a sleep that lasted at least pollInterval, so the queries
\* sent so far are at least pollInterval apart; and a query is sent only
\* when none is in flight.
C18_SleepBetweenPolls ==
    /\ [](SawNonTerminal => pc = "sleep")
    /\ [](pc \in {"query", "sleep"} =>
            /\ polls >= 1
            /\ elapsed >= (polls - 1) * pollInterval)
    /\ [][QueryIssued /\ polls >= 1 =>
            /\ pc = "sleep"
            /\ polls' = polls + 1
            /\ elapsed' >= elapsed + pollInterval]_vars

\* Reached: the third status query is in flight, 10 s after the first.
C18_Witness ==
    /\ pc = "query"
    /\ polls = 3
    /\ elapsed = 2 * pollInterval

PollFault == observed.kind \in {"reject", "http", "code", "empty"}

\* C19: a status query that failed in transport (fetch rejected, non-ok
\* response, non-zero code, missing or empty result list) is never taken for
\* a non-terminal status: the wait has thrown the matching error to its
\* caller, is not asleep, and that query is the last one sent.
C19_PollFaultSurfaces ==
    PollFault =>
        /\ pc = "thrown"
        /\ polls >= 1
        /\ net[Len(net)].op = "getBatchResult"
        /\ outcome
              = Thrown(IF observed.kind = "reject" THEN Err("fetch failed", "")
                       ELSE IF observed.kind = "http"
                       THEN Err("Mineru batch result query failed: ", "status")
                       ELSE IF observed.kind = "code"
                       THEN Err("Mineru batch result query failed: ", "msg")
                       ELSE Err("No extraction results found", ""))

\* Reached: the second status query of a direct wait came back with an empty
\* result list.
C19_Witness ==
    /\ entry = "wait"
    /\ observed.kind = "empty"
    /\ polls = 2
    /\ pc = "thrown"

OpsOf(n) == [i \in 1..Len(n) |-> n[i].op]
ConvertOrder == <<"requestUploadUrl", "uploadFile", "getBatchResult", "download">>

\* C20: in a convert call the remote operations come in a fixed order, each
\* gated on the success of the one before: the remote calls made so far are
\* an initial part of upload-location request, upload, status queries,
\* download; the upload is sent only when the upload-location request has
\* just succeeded, and to the first location it gave; the first status query
\* only when the upload has just succeeded; the download only when a status
\* query has just shown 'done' with a locator, and from that locator; and
\* the extraction is started only when the download has just succeeded.
C20_StepsInOrder ==
    /\ [](entry = "convert" =>
            /\ Len(net) <= 4
            /\ OpsOf(net) = SubSeq(ConvertOrder, 1, Len(net)))
    /\ [][entry = "convert" =>
            /\ (pc' = "uploadFile" /\ pc # "uploadFile" =>
                  /\ pc = "requestUploadUrl"
                  /\ response'.op = "requestUploadUrl" /\ response'.kind = "http"
                  /\ response'.ok /\ response'.code = 0
                  /\ response'.hasUrls /\ response'.file_urls # <<>>
                  /\ net' = Append(net, Call("uploadFile", response'.file_urls[1])))
            /\ (QueryIssued /\ polls = 0 =>
                  /\ pc = "uploadFile"
                  /\ response'.op = "uploadFile" /\ response'.kind = "http" /\ response'.ok)
            /\ (pc' = "download" /\ pc # "download" =>
                  /\ pc = "query"
                  /\ observed'.kind = "status" /\ observed'.state = "done"
                  /\ observed'.full_zip_url \notin {Absent, ""}
                  /\ zipUrl' = observed'.full_zip_url
                  /\ net' = Append(net, Call("download", observed'.full_zip_url)))
            /\ (pc' = "fromBuffer" /\ pc # "fromBuffer" =>
                  /\ pc = "download"
                  /\ response'.op = "download" /\ response'.kind = "http" /\ response'.ok
                  /\ promise.state = "none" /\ promise'.state = "pending")]_vars

\* Reached: convert has made all four kinds of remote call and hands the
\* downloaded bytes to the extraction.
C20_Witness ==
    /\ entry = "convert"
    /\ pc = "fromBuffer"
    /\ OpsOf(net) = ConvertOrder
    /\ net[2].target = "https://put/1"
    /\ net[4].target = zipUrl

\* C21 as claimed: whatever the archive does, the extraction's promise gets
\* settled: a run that has come to a stop (an error thrown out of the first
\* pass, or the second pass ended) has not left it pending, an error of the
\* first pass having rejected it; no more entries are counted as processed
\* than the first pass counted; and it is resolved only when every entry
\* counted has been processed.
C21_ExtractionAlwaysSettles ==
    /\ processedEntries <= totalEntries
    /\ promise.state = "resolved" =>
          /\ processedEntries = totalEntries
          /\ totalEntries = Len(body.entries)
    /\ pc \in {"uncaught", "ended"} => promise.state # "pending"
    /\ pc = "uncaught" => promise.state = "rejected"


\* The converted context-document message has a text part with 'PDF Content:'.
HasPdfContentPart ==
    \E i \in 1..Len(docMessage.parts) :
        /\ docMessage.parts[i].type = "text"
        /\ \E j \in 1..Len(docMessage.parts[i].text) :
              docMessage.parts[i].text[j] = "PDF Content:"
\* The conversation ends with a message of the user that has text other than
\* white space.
LastMessageHasUserText ==
    /\ Len(state._messages) > 0
    /\ state._messages[Len(state._messages)].type = "human"
    /\ \E j \in 1..Len(state._messages[Len(state._messages)].text) :
          state._messages[Len(state._messages)].text[j] \notin {" ", "\n\n"}
\* generatePath has run and named the directPDFToArtifact node.
RoutedToDirectPDF ==
    \/ node \in {"directPDFToArtifact", "end"}
    \/ (node = "thrown" /\ update.error = "No direct PDF markdown content found")
\* The text of the first 'PDF Content:' part without its 'PDF Content:\n\n'.
ExtractedMarkdown == RemovePdfPrefix(docMessage.parts[FindPdfContent(docMessage)].text)

C23_DocMessageAtMostOnce ==
    (node # "generatePath" /\ docMessage # NoMessage) =>
        /\ Cardinality({i \in 1..Len(update.messages) : update.messages[i] = docMessage}) <= 1
        /\ Cardinality({i \in 1..Len(update._messages) : update._messages[i] = docMessage}) <= 1

====
